---- MODULE Spec2Model ----
(***************************************************************************)
(* ytmdctrl: token store, pairing handshake and command execution.         *)
(* One process per invocation of the binary; the token store file is the   *)
(* only state shared between invocations.                                  *)
(***************************************************************************)
EXTENDS Integers, Sequences, FiniteSets, TLC

(* ---------------------------------------------------------------- bounds *)
\* total number of invocations started in one behaviour
MaxRuns == 3
\* total number of invocations started when invocations may overlap
MaxOverlapRuns == 2

(* ------------------------------------------------------ program constants *)
ERR_INVALID_ARGS == 1
ERR_COMMAND_FAILED == 2
\* exit status of a Rust process whose main thread panicked (a failed unwrap,
\* the first of which is on line 343)
PanicExit == 101
\* exit status of main returning normally (line 372)
ExitOk == 0
\* exit status of an invocation that has not terminated yet
NoExit == 0 - 1

(* ------------------------------------------------------------ value sets *)
Procs == {1, 2}
Addrs == {"localhost", "hostB"}
Tokens == {"t1", "t2"}
NoToken == "none"

\* HashMap<String, String>: server address -> token (NoToken: no entry)
TokenMaps == [Addrs -> Tokens \cup {NoToken}]
EmptyMap == [a \in Addrs |-> NoToken]

\* faulty insert: the entry goes into a new map, the loaded entries are dropped
MapInsert_fresh(m, a, t) == [[x \in Addrs |-> NoToken] EXCEPT ![a] = t]

\* HashMap::insert
MapInsert(m, a, t) == [m EXCEPT ![a] = t]
\* HashMap::remove (the map that is left)
MapRemove(m, a) == [m EXCEPT ![a] = NoToken]

(* ------------------------------------------------------------ file system *)
\* permission bits of a regular file
AllRW == {"ur", "uw", "gr", "gw", "or", "ow"}

\* Permissions::from_mode(0o600)
owner_only == {"ur", "uw"}

\* process umasks the binary may be started under (022 and 077)
Umasks == {{"gw", "ow"}, {"gr", "gw", "or", "ow"}}

\* byte content of the store file: nothing, bytes that are no JSON map of
\* strings, or the serialisation of a map
EmptyContent == [kind |-> "empty", map |-> EmptyMap]
CorruptContent == [kind |-> "corrupt", map |-> EmptyMap]
\* serde_json::to_vec(&store)
to_vec(m) == [kind |-> "json", map |-> m]
Contents == {EmptyContent, CorruptContent} \cup {to_vec(m) : m \in TokenMaps}

NoFile == [exists |-> FALSE, mode |-> {}, content |-> EmptyContent, byProgram |-> FALSE]

\* Option<HashMap<String, String>>
None == [some |-> FALSE, map |-> EmptyMap]
Some(m) == [some |-> TRUE, map |-> m]

\* serde_json::from_str::<HashMap<String, String>>(..).ok()
from_str(c) == IF c.kind = "json" THEN Some(c.map) ELSE None

\* read_token_store: a read error or a parse error is None
read_token_store(f) == IF f.exists THEN from_str(f.content) ELSE None

\* std::fs::File::create: creates the file with mode 0666 & ~umask when it is
\* missing, truncates it (keeping its mode) when it exists
FileCreate(f, umask) ==
    IF f.exists
    THEN [f EXCEPT !.content = EmptyContent]
    ELSE [exists |-> TRUE, mode |-> AllRW \ umask, content |-> EmptyContent, byProgram |-> TRUE]

\* faulty set_permissions: the mode is left as File::create made it
SetPermissions_noop(f, perm) == f

\* File::set_permissions
SetPermissions(f, perm) == [f EXCEPT !.mode = perm]

\* File::write through a descriptor opened by File::create (offset 0, no
\* truncation at write time): on an empty file the data is the content; over
\* bytes written by somebody else since the truncation the result is the data
\* or, when the old bytes are longer, the data followed by a stale tail
FileWrite(f, data) ==
    IF f.content = EmptyContent
    THEN {[f EXCEPT !.content = data]}
    ELSE {[f EXCEPT !.content = data], [f EXCEPT !.content = CorruptContent]}

(* ------------------------------------------------------------- arguments *)
Commands == {"State", "Playlists", "PlayPause", "Volume", "Seek", "Jumpto", "Open"}
Delays == {"none", "valid", "invalid"}
NoCommand == [name |-> "none", server |-> "localhost", delay |-> "none"]

\* the first argument not starting with '-' ("" when there is none)
Words ==
    {"", "state", "playlists", "play-pause", "volume", "seek", "jumpto", "open", "bogus"}
\* the commands built from SetFloatArgs
FloatWords == {"volume", "seek", "jumpto"}
Targets == {"none", "num", "nonnum"}

\* an argument list: a help flag somewhere, the command word, the positional
\* target (SetFloatArgs), --video / --playlist (VideoChangeRequestArgs),
\* --delay, --server, and whether the flags are ones the command accepts
ArgLists ==
    {a \in [help : BOOLEAN, word : Words, target : Targets, video : BOOLEAN,
            playlist : BOOLEAN, delay : Delays, server : Addrs, flagsOk : BOOLEAN] :
        /\ (a.word \notin FloatWords => a.target = "none")
        /\ (a.word # "open" => ~a.video /\ ~a.playlist)}
NoArgs ==
    [help |-> FALSE, word |-> "", target |-> "none", video |-> FALSE,
     playlist |-> FALSE, delay |-> "none", server |-> "localhost", flagsOk |-> TRUE]

\* faulty default: the play-pause of line 304 is not inserted
EffectiveWord_noDefault(args) == args.word

\* line 303: no command-like argument means play-pause
EffectiveWord(args) == IF args.word = "" THEN "play-pause" ELSE args.word

CommandName(w) ==
    CASE w = "state" -> "State"
      [] w = "playlists" -> "Playlists"
      [] w = "play-pause" -> "PlayPause"
      [] w = "volume" -> "Volume"
      [] w = "seek" -> "Seek"
      [] w = "jumpto" -> "Jumpto"
      [] w = "open" -> "Open"
      [] OTHER -> "none"

\* Command::from_args(..).is_ok()
from_args_ok(args) ==
    LET w == EffectiveWord(args) IN
    /\ CommandName(w) # "none"
    /\ (w \in FloatWords => args.target = "num")
    /\ args.flagsOk

\* faulty hint: the generic message for every rejected argument list
Hint_generic(args) == "Invalid command"

\* lines 310-315: the message printed for an argument list from_args rejects
Hint(args) ==
    LET w == EffectiveWord(args) IN
    IF w \in FloatWords THEN "hint:" \o w ELSE "Invalid command"

is_get_request(c) == c.name \in {"State", "Playlists"}

(* ----------------------------------------------------------- HTTP server *)
Statuses == {200, 204, 401, 429, 500}
\* response body: whether it could be read, whether it is JSON, its "error"
\* member ("absent", a non-string value, or a string), and the schema its JSON
\* matches (StateResponse, Vec<PlaylistEntry>, or neither)
Bodies ==
    {[read |-> FALSE, json |-> FALSE, error |-> "absent", shape |-> "other"],
     [read |-> TRUE, json |-> FALSE, error |-> "absent", shape |-> "other"],
     [read |-> TRUE, json |-> TRUE, error |-> "absent", shape |-> "other"],
     [read |-> TRUE, json |-> TRUE, error |-> "absent", shape |-> "state"],
     [read |-> TRUE, json |-> TRUE, error |-> "absent", shape |-> "playlists"],
     [read |-> TRUE, json |-> TRUE, error |-> "nonstring", shape |-> "other"],
     [read |-> TRUE, json |-> TRUE, error |-> "UNAUTHORIZED", shape |-> "other"],
     [read |-> TRUE, json |-> TRUE, error |-> "OTHER", shape |-> "other"]}

is_success(status) == status >= 200 /\ status < 300

\* faulty test: any "error" member counts as a token invalidation
IsUnauthorized_anyError(body) == body.json /\ body.error # "absent"

\* parsed.get("error").map_or(false, |e| e.as_str().map_or(false, |e| e == "UNAUTHORIZED"))
IsUnauthorized(body) == body.json /\ body.error = "UNAUTHORIZED"

(* ----------------------------------------------------------------- state *)
VARIABLES
    file,        \* the token store file
    runs,        \* invocations started so far
    unauth,      \* addresses whose latest finished invocation ended Unauthorized
    pc,          \* position of each invocation
    command,     \* the parsed Command
    store,       \* main's `store`
    token,       \* the token main holds (cached or issued)
    cached,      \* TRUE when the token came from the store (line 332)
    sent,        \* HTTP requests sent so far, in order
    replies,     \* the responses received to them, in order
    outcome,     \* how the invocation ended
    exitCode,    \* process exit status
    pre,         \* what the store file held when the invocation started
    afterUnauth, \* the invocation is the first for its address after an Unauthorized
    argv,        \* the argument list the invocation was started with
    printed,     \* what the invocation printed: hints, help text, rendered bodies
    fsLog,       \* the operations of the invocation on the store file, in order
    slept        \* for each completed sleep, the number of requests sent before it

vars == <<file, runs, unauth, pc, command, store, token, cached, sent, replies,
          outcome, exitCode, pre, afterUnauth, argv, printed, fsLog, slept>>

locals == <<command, store, token, cached, sent, replies, outcome, exitCode, pre,
            afterUnauth, argv, printed, slept>>

InitFiles ==
    {NoFile} \cup
    {[exists |-> TRUE, mode |-> owner_only, content |-> c, byProgram |-> TRUE] : c \in Contents}

Init ==
    /\ file \in InitFiles
    /\ runs = 0
    /\ unauth = {}
    /\ pc = [p \in Procs |-> "idle"]
    /\ command = [p \in Procs |-> NoCommand]
    /\ store = [p \in Procs |-> EmptyMap]
    /\ token = [p \in Procs |-> NoToken]
    /\ cached = [p \in Procs |-> FALSE]
    /\ sent = [p \in Procs |-> <<>>]
    /\ replies = [p \in Procs |-> <<>>]
    /\ outcome = [p \in Procs |-> "none"]
    /\ exitCode = [p \in Procs |-> NoExit]
    /\ pre = [p \in Procs |-> NoFile]
    /\ afterUnauth = [p \in Procs |-> FALSE]
    /\ argv = [p \in Procs |-> NoArgs]
    /\ printed = [p \in Procs |-> <<>>]
    /\ fsLog = [p \in Procs |-> <<>>]
    /\ slept = [p \in Procs |-> <<>>]

\* println!/eprintln!
Emit(p, msgs) == printed' = [printed EXCEPT ![p] = @ \o msgs]

\* an operation on the store file
FsOp(p, ops) == fsLog' = [fsLog EXCEPT ![p] = @ \o ops]

\* the invocation ends: main returns, calls process::exit, or panics
Finish(p, how, code) ==
    /\ pc' = [pc EXCEPT ![p] = "done"]
    /\ outcome' = [outcome EXCEPT ![p] = how]
    /\ exitCode' = [exitCode EXCEPT ![p] = code]

(* ------------------------------------------------- main, lines 296 - 323 *)
\* Command built by from_args from an accepted argument list
ParsedCommand(args) ==
    [name |-> CommandName(EffectiveWord(args)), server |-> args.server, delay |-> args.delay]

\* faulty check: the test of line 320 is missing
IsEmptyOpen_never(args) == FALSE

\* Command::Open(VideoChangeRequestArgs { video: None, playlist: None, .. })
IsEmptyOpen(args) == EffectiveWord(args) = "open" /\ ~args.video /\ ~args.playlist

\* lines 296-323 for an argument list out of argSet: help flag, argument
\* parsing, the empty open check
Begin(p, argSet, limit) ==
    /\ pc[p] = "idle"
    /\ runs < limit
    /\ runs' = runs + 1
    /\ pre' = [pre EXCEPT ![p] = file]
    /\ \E args \in argSet :
         /\ argv' = [argv EXCEPT ![p] = args]
         /\ IF args.help
            THEN /\ Finish(p, "Help", ExitOk)
                 /\ Emit(p, <<"USEFUL_HELP">>)
                 /\ UNCHANGED command
            ELSE IF ~from_args_ok(args)
            THEN /\ Finish(p, "InvalidArgs", ERR_INVALID_ARGS)
                 /\ Emit(p, <<Hint(args), "USEFUL_HELP">>)
                 /\ UNCHANGED command
            ELSE IF IsEmptyOpen(args)
            THEN /\ Finish(p, "OpenNone", ExitOk)
                 /\ Emit(p, <<"open requires">>)
                 /\ UNCHANGED command
            ELSE /\ command' = [command EXCEPT ![p] = ParsedCommand(args)]
                 /\ pc' = [pc EXCEPT ![p] = "load"]
                 /\ UNCHANGED <<outcome, exitCode, printed>>
    /\ UNCHANGED <<file, unauth, store, token, cached, sent, replies, afterUnauth, fsLog,
                   slept>>

\* invocations do not overlap: one starts when no other process exists
MayStart(p) == \A q \in Procs : pc[q] = "idle"

\* the process starts
Start(p) == MayStart(p) /\ Begin(p, ArgLists, MaxRuns)

\* the argument lists of overlapping invocations: play-pause for either server
OverlapArgs ==
    {a \in ArgLists : ~a.help /\ a.word = "play-pause" /\ a.delay = "none" /\ a.flagsOk}

\* the process starts while another invocation may be running: nothing in
\* main looks for one, and the store file is not locked
StartOverlapping(p) == Begin(p, OverlapArgs, MaxOverlapRuns)

(* ------------------------------------------------- main, lines 326 - 335 *)
\* faulty load: read_token_store().unwrap() instead of unwrap_or_else
LoadStore_unwrap(p) ==
    /\ pc[p] = "load"
    /\ LET r == read_token_store(file) IN
         IF r.some
         THEN /\ store' = [store EXCEPT ![p] = r.map]
              /\ pc' = [pc EXCEPT ![p] = "lookup"]
              /\ UNCHANGED <<outcome, exitCode>>
         ELSE Finish(p, "Transport", PanicExit) /\ UNCHANGED store
    /\ UNCHANGED <<file, runs, unauth, command, token, cached, sent, replies, pre,
                   afterUnauth>>
    /\ UNCHANGED <<argv, slept, printed>>
    /\ FsOp(p, <<"read">>)

\* line 326: read_token_store(); Some(map) becomes `store`
LoadStore(p) ==
    /\ pc[p] = "load"
    /\ LET r == read_token_store(file) IN
         IF r.some
         THEN /\ store' = [store EXCEPT ![p] = r.map]
              /\ pc' = [pc EXCEPT ![p] = "lookup"]
         ELSE /\ pc' = [pc EXCEPT ![p] = "create"]
              /\ UNCHANGED store
    /\ UNCHANGED <<file, runs, unauth, command, token, cached, sent, replies, outcome,
                   exitCode, pre, afterUnauth>>
    /\ UNCHANGED <<argv, slept, printed>>
    /\ FsOp(p, <<"read">>)

\* lines 327-328: create_dir_all, File::create
CreateStoreFile(p) ==
    /\ pc[p] = "create"
    /\ \E umask \in Umasks : file' = FileCreate(file, umask)
    /\ pc' = [pc EXCEPT ![p] = "chmod"]
    /\ UNCHANGED <<runs, unauth, locals>>
    /\ FsOp(p, <<"create">>)

\* lines 329-330: set_permissions(owner_only()), HashMap::new()
RestrictStoreFile(p) ==
    /\ pc[p] = "chmod"
    /\ file' = SetPermissions(file, owner_only)
    /\ store' = [store EXCEPT ![p] = EmptyMap]
    /\ pc' = [pc EXCEPT ![p] = "lookup"]
    /\ UNCHANGED <<runs, unauth, command, token, cached, sent, replies, outcome, exitCode,
                   pre, afterUnauth>>
    /\ UNCHANGED <<argv, slept, printed>>
    /\ FsOp(p, <<"chmod">>)

\* faulty lookup: the removal of line 332 is written through to the file
LookupToken_evicts(p) ==
    /\ pc[p] = "lookup"
    /\ LET r == read_token_store(file)
            a == command[p].server
            found == r.some /\ r.map[a] # NoToken
        IN  /\ token' = [token EXCEPT ![p] = IF found THEN r.map[a] ELSE NoToken]
            /\ cached' = [cached EXCEPT ![p] = found]
            /\ pc' = [pc EXCEPT ![p] = IF found THEN "logic" ELSE "reqcode"]
            /\ afterUnauth' = [afterUnauth EXCEPT ![p] = a \in unauth]
            /\ unauth' = unauth \ {a}
            /\ file' = IF found
                       THEN [file EXCEPT !.content = to_vec(MapRemove(r.map, a))]
                       ELSE file
    /\ FsOp(p, <<"read">>)
    /\ UNCHANGED <<runs, command, store, sent, replies, outcome, exitCode, pre, argv, slept,
                   printed>>

\* line 332: read_token_store().and_then(|mut tkstr| tkstr.remove(addr))
LookupToken(p) ==
    /\ pc[p] = "lookup"
    /\ LET r == read_token_store(file)
            a == command[p].server
            found == r.some /\ r.map[a] # NoToken
        IN  /\ token' = [token EXCEPT ![p] = IF found THEN r.map[a] ELSE NoToken]
            /\ cached' = [cached EXCEPT ![p] = found]
            /\ pc' = [pc EXCEPT ![p] = IF found THEN "logic" ELSE "reqcode"]
            /\ afterUnauth' = [afterUnauth EXCEPT ![p] = a \in unauth]
            /\ unauth' = unauth \ {a}
    /\ UNCHANGED <<file, runs, command, store, sent, replies, outcome, exitCode, pre>>
    /\ UNCHANGED <<argv, slept, printed>>
    /\ FsOp(p, <<"read">>)

(* ------------------------------------------------- main, lines 336 - 371 *)
\* an HTTP request as it leaves the client
Request(method, host, path, auth, body) ==
    [method |-> method, host |-> host, path |-> path, auth |-> auth, body |-> body]

Send(p, req) == sent' = [sent EXCEPT ![p] = Append(@, req)]

\* lines 339-343: POST auth/requestcode
SendRequestCode(p) ==
    /\ pc[p] = "reqcode"
    /\ Send(p, Request("POST", command[p].server, "auth/requestcode", NoToken, "appId"))
    /\ pc' = [pc EXCEPT ![p] = "wait_code"]
    /\ UNCHANGED <<file, runs, unauth, command, store, token, cached, replies,
                   outcome, exitCode, pre, afterUnauth>>
    /\ UNCHANGED <<argv, slept, printed, fsLog>>

\* the response is kept beside the request it answers
Reply(p, status, body) ==
    replies' = [replies EXCEPT ![p] = Append(@, [status |-> status, body |-> body])]

\* body of a pairing response: JSON holding the expected string member, or not
PairBody(has) == [read |-> TRUE, json |-> has, error |-> "absent", shape |-> "other"]

\* faulty test: any 2xx status lets the pairing go on
PairingOk_2xx(status) == is_success(status)

\* lines 344 and 359: status() != StatusCode::OK fails the pairing
PairingOk(status) == status = 200

\* lines 343-350: the answer to auth/requestcode; send().await.unwrap(), the
\* status check, then the unwraps that extract "code"
CodeResponse(p, statuses) ==
    /\ pc[p] = "wait_code"
    /\ \E answered \in BOOLEAN, status \in statuses, hasCode \in BOOLEAN :
         IF ~answered
         THEN Finish(p, "Transport", PanicExit) /\ UNCHANGED replies
         ELSE /\ Reply(p, status, PairBody(hasCode))
              /\ IF ~PairingOk(status)
                 THEN Finish(p, "PairingUnavailable", ExitOk)
                 ELSE IF ~hasCode
                 THEN Finish(p, "Transport", PanicExit)
                 ELSE /\ pc' = [pc EXCEPT ![p] = "reqtoken"]
                      /\ UNCHANGED <<outcome, exitCode>>
    /\ UNCHANGED <<file, runs, unauth, command, store, token, cached, sent, pre,
                   afterUnauth>>
    /\ UNCHANGED <<argv, slept, printed, fsLog>>

RecvCodeResponse(p) == CodeResponse(p, Statuses)

\* faulty sequencing: auth/request is sent without awaiting the code response
SendTokenRequest_noAwait(p) ==
    /\ pc[p] \in {"wait_code", "reqtoken"}
    /\ sent' = [sent EXCEPT ![p] =
                   Append(@, [method |-> "POST", host |-> command[p].server,
                              path |-> "auth/request", auth |-> NoToken, body |-> "code"])]
    /\ pc' = [pc EXCEPT ![p] = "wait_token"]
    /\ UNCHANGED <<file, runs, unauth, command, store, token, cached, replies,
                   outcome, exitCode, pre, afterUnauth, argv, slept, printed, fsLog>>

\* lines 355-358: POST auth/request with the code
SendTokenRequest(p) ==
    /\ pc[p] = "reqtoken"
    /\ Send(p, Request("POST", command[p].server, "auth/request", NoToken, "code"))
    /\ pc' = [pc EXCEPT ![p] = "wait_token"]
    /\ UNCHANGED <<file, runs, unauth, command, store, token, cached, replies,
                   outcome, exitCode, pre, afterUnauth>>
    /\ UNCHANGED <<argv, slept, printed, fsLog>>

\* lines 358-365: the answer to auth/request; the token is taken from "token"
TokenResponse(p, statuses) ==
    /\ pc[p] = "wait_token"
    /\ \E answered \in BOOLEAN, status \in statuses, issued \in Tokens \cup {NoToken} :
         IF ~answered
         THEN Finish(p, "Transport", PanicExit) /\ UNCHANGED <<token, replies>>
         ELSE /\ Reply(p, status, PairBody(issued # NoToken))
              /\ IF ~PairingOk(status)
                 THEN Finish(p, "PairingDeclined", ExitOk) /\ UNCHANGED token
                 ELSE IF issued = NoToken
                 THEN Finish(p, "Transport", PanicExit) /\ UNCHANGED token
                 ELSE /\ token' = [token EXCEPT ![p] = issued]
                      /\ pc' = [pc EXCEPT ![p] = "insert"]
                      /\ UNCHANGED <<outcome, exitCode>>
    /\ UNCHANGED <<file, runs, unauth, command, store, cached, sent, pre, afterUnauth>>
    /\ UNCHANGED <<argv, slept, printed, fsLog>>

RecvTokenResponse(p) == TokenResponse(p, Statuses)

\* lines 367-368: store.insert(ip, token); File::create(store path)
InsertAndCreate(p) ==
    /\ pc[p] = "insert"
    /\ store' = [store EXCEPT ![p] = MapInsert(@, command[p].server, token[p])]
    /\ \E umask \in Umasks : file' = FileCreate(file, umask)
    /\ pc' = [pc EXCEPT ![p] = "logic"]
    /\ UNCHANGED <<runs, unauth, command, token, cached, sent, replies, outcome, exitCode,
                   pre, afterUnauth>>
    /\ UNCHANGED <<argv, slept, printed>>
    /\ FsOp(p, <<"create">>)

\* faulty persist: the file is read again and the entries found are kept
PersistStore_merge(p) ==
    /\ pc[p] = "persist"
    /\ LET now == read_token_store(file).map
            merged == [a \in Addrs |-> IF store[p][a] # NoToken THEN store[p][a] ELSE now[a]]
        IN  file' = [file EXCEPT !.content = to_vec(merged)]
    /\ pc' = [pc EXCEPT ![p] = "done"]
    /\ exitCode' = [exitCode EXCEPT ![p] = ExitOk]
    /\ FsOp(p, <<"write">>)
    /\ UNCHANGED <<runs, unauth, command, store, token, cached, sent, replies, outcome, pre,
                   afterUnauth, argv, slept, printed>>

\* line 370: tkn_file.write(&serde_json::to_vec(&store)), then main returns
PersistStore(p) ==
    /\ pc[p] = "persist"
    /\ file' \in FileWrite(file, to_vec(store[p]))
    /\ pc' = [pc EXCEPT ![p] = "done"]
    /\ exitCode' = [exitCode EXCEPT ![p] = ExitOk]
    /\ UNCHANGED <<runs, unauth, command, store, token, cached, sent, replies, outcome, pre,
                   afterUnauth>>
    /\ UNCHANGED <<argv, slept, printed>>
    /\ FsOp(p, <<IF file'.content = to_vec(store[p]) THEN "write" ELSE "write_torn">>)

(* ------------------------------------------- main_logic, lines 376 - 488 *)
\* Command::get_path
get_path(c) ==
    CASE c.name = "State" -> "state"
      [] c.name = "Playlists" -> "playlists"
      [] OTHER -> "none"

\* Command::get_body
get_body(c) ==
    CASE c.name \in {"State", "Playlists"} -> ""
      [] c.name = "PlayPause" -> "{\"command\":\"playPause\"}"
      [] c.name = "Volume" -> "{\"command\":\"setVolume\", \"data\": target}"
      [] c.name = "Seek" -> "{\"command\":\"seekTo\", \"data\": target}"
      [] c.name = "Jumpto" -> "{\"command\":\"playQueueIndex\", \"data\": target}"
      [] c.name = "Open" -> "{\"command\":\"changeVideo\", \"data\": ids}"

\* lines 382-393: the request main_logic builds
CommandRequest(c, tok) ==
    IF get_path(c) # "none"
    THEN Request("GET", c.server, get_path(c), tok, "")
    ELSE Request("POST", c.server, "command", tok, get_body(c))

\* faulty classification: the body is looked at before the 429 test
Classify_unauthFirst(status, body) ==
    IF ~is_success(status) /\ IsUnauthorized(body) THEN "Unauthorized"
    ELSE IF status = 429 THEN "RateLimited"
    ELSE IF ~is_success(status) THEN "OtherFailure"
    ELSE "Success"

\* faulty classification: the 429 test of line 395 is missing
Classify_no429(status, body) ==
    IF ~is_success(status)
    THEN IF IsUnauthorized(body) THEN "Unauthorized" ELSE "OtherFailure"
    ELSE "Success"

\* lines 395-424: what the response is taken for
Classify(status, body) ==
    IF status = 429 THEN "RateLimited"
    ELSE IF ~is_success(status)
    THEN IF IsUnauthorized(body) THEN "Unauthorized" ELSE "OtherFailure"
    ELSE "Success"

\* lines 403 and 425: response.text().await.unwrap() is reached
ReadsBody(c, status) ==
    /\ status # 429
    /\ (~is_success(status) \/ is_get_request(c))

\* Command::get_delay, lines 155-179: "none" stands for None
get_delay(c) == c.delay

\* faulty delay: the sleep of line 380 is not awaited
Delay_notAwaited(p) ==
    /\ pc[p] = "logic"
    /\ IF get_delay(command[p]) = "invalid"
       THEN Finish(p, "BadDelay", PanicExit)
       ELSE /\ pc' = [pc EXCEPT ![p] = "send"]
            /\ UNCHANGED <<outcome, exitCode>>
    /\ UNCHANGED <<file, runs, unauth, command, store, token, cached, sent, replies,
                   pre, afterUnauth, argv, printed, fsLog, slept>>

\* lines 377-381: the optional delay; parse_duration::parse(delay).unwrap(),
\* then tokio::time::sleep(sleep_time).await
Delay(p) ==
    /\ pc[p] = "logic"
    /\ IF get_delay(command[p]) = "invalid"
       THEN Finish(p, "BadDelay", PanicExit) /\ UNCHANGED slept
       ELSE /\ pc' = [pc EXCEPT ![p] = "send"]
            /\ slept' = [slept EXCEPT ![p] =
                            IF get_delay(command[p]) = "none"
                            THEN @ ELSE Append(@, Len(sent[p]))]
            /\ UNCHANGED <<outcome, exitCode>>
    /\ UNCHANGED <<file, runs, unauth, command, store, token, cached, sent, replies,
                   pre, afterUnauth>>
    /\ UNCHANGED <<argv, printed, fsLog>>

\* lines 382-393: the command request is sent
SendCommand(p) ==
    /\ pc[p] = "send"
    /\ Send(p, CommandRequest(command[p], token[p]))
    /\ pc' = [pc EXCEPT ![p] = "wait_cmd"]
    /\ UNCHANGED <<file, runs, unauth, command, store, token, cached, replies,
                   outcome, exitCode, pre, afterUnauth>>
    /\ UNCHANGED <<argv, slept, printed, fsLog>>

\* main_logic returns true: line 334 returns, line 369 goes on to persist
ReturnTrue(p, how) ==
    IF cached[p]
    THEN Finish(p, how, ExitOk)
    ELSE /\ pc' = [pc EXCEPT ![p] = "persist"]
         /\ outcome' = [outcome EXCEPT ![p] = how]
         /\ UNCHANGED exitCode

\* faulty rendering: no generic JSON tier, a schema mismatch is printed raw
Render_noGeneric(c, body) ==
    IF body.json /\ body.shape = (IF c.name = "State" THEN "state" ELSE "playlists")
    THEN "structured"
    ELSE "raw"

\* lines 428-477: how the body of a successful read command is rendered;
\* the schema first, then any JSON, then the raw text
Render(c, body) ==
    IF body.json /\ body.shape = (IF c.name = "State" THEN "state" ELSE "playlists")
    THEN "structured"
    ELSE IF body.json THEN "pretty" ELSE "raw"

\* lines 424-486: what a successful response makes main_logic print; the
\* branch is entered for get requests only
SuccessOutput(c, body) ==
    IF is_get_request(c) THEN <<Render(c, body)>> ELSE <<>>

\* lines 385/392-424: the response (or the failure to get one) and its
\* classification
CommandResponse(p, statuses, bodies) ==
    /\ pc[p] = "wait_cmd"
    /\ \E answered \in BOOLEAN, status \in statuses, body \in bodies :
         LET how == Classify(status, body) IN
         IF ~answered
         THEN Finish(p, "Transport", PanicExit) /\ UNCHANGED <<replies, printed>>
         ELSE /\ Reply(p, status, body)
              /\ IF ReadsBody(command[p], status) /\ ~body.read
                 THEN Finish(p, "Transport", PanicExit) /\ UNCHANGED printed
                 ELSE IF how = "Unauthorized"
                 THEN /\ pc' = [pc EXCEPT ![p] = "unauth_create"]
                      /\ outcome' = [outcome EXCEPT ![p] = how]
                      /\ UNCHANGED <<exitCode, printed>>
                 ELSE IF how = "OtherFailure"
                 THEN Finish(p, how, ERR_COMMAND_FAILED) /\ UNCHANGED printed
                 ELSE /\ ReturnTrue(p, how)
                      /\ Emit(p, IF how = "Success"
                                 THEN SuccessOutput(command[p], body) ELSE <<>>)
    /\ UNCHANGED <<file, runs, unauth, command, store, token, cached, sent, pre,
                   afterUnauth, argv, slept, fsLog>>

RecvCommandResponse(p) == CommandResponse(p, Statuses, Bodies)

\* faulty eviction: main_logic returns false without touching the file
UnauthCreate_noEvict(p) ==
    /\ pc[p] = "unauth_create"
    /\ unauth' = unauth \cup {command[p].server}
    /\ pc' = [pc EXCEPT ![p] = "done"]
    /\ exitCode' = [exitCode EXCEPT ![p] = ExitOk]
    /\ UNCHANGED <<file, runs, command, store, token, cached, sent, replies, outcome,
                   pre, afterUnauth>>
    /\ UNCHANGED <<argv, slept, printed, fsLog>>

\* line 409: File::create(store path)
UnauthCreate(p) ==
    /\ pc[p] = "unauth_create"
    /\ \E umask \in Umasks : file' = FileCreate(file, umask)
    /\ pc' = [pc EXCEPT ![p] = "unauth_store"]
    /\ UNCHANGED <<runs, unauth, locals>>
    /\ FsOp(p, <<"create">>)

\* lines 410-414: read_token_store, remove the address, write; return false,
\* after which main returns (lines 334 and 369)
UnauthRemove(p) ==
    /\ pc[p] = "unauth_store"
    /\ LET r == read_token_store(file) IN
         IF r.some
         THEN file' \in FileWrite(file, to_vec(MapRemove(r.map, command[p].server)))
         ELSE UNCHANGED file
    /\ unauth' = unauth \cup {command[p].server}
    /\ pc' = [pc EXCEPT ![p] = "done"]
    /\ exitCode' = [exitCode EXCEPT ![p] = ExitOk]
    /\ UNCHANGED <<runs, command, store, token, cached, sent, replies, outcome, pre, afterUnauth>>
    /\ UNCHANGED <<argv, slept, printed>>
    /\ FsOp(p, IF read_token_store(file).some THEN <<"read", "write">> ELSE <<"read">>)

(* ------------------------------------------------------------ environment *)
\* the process is gone; its memory with it
Exit(p) ==
    /\ pc[p] = "done"
    /\ pc' = [pc EXCEPT ![p] = "idle"]
    /\ command' = [command EXCEPT ![p] = NoCommand]
    /\ store' = [store EXCEPT ![p] = EmptyMap]
    /\ token' = [token EXCEPT ![p] = NoToken]
    /\ cached' = [cached EXCEPT ![p] = FALSE]
    /\ sent' = [sent EXCEPT ![p] = <<>>]
    /\ replies' = [replies EXCEPT ![p] = <<>>]
    /\ outcome' = [outcome EXCEPT ![p] = "none"]
    /\ exitCode' = [exitCode EXCEPT ![p] = NoExit]
    /\ pre' = [pre EXCEPT ![p] = NoFile]
    /\ afterUnauth' = [afterUnauth EXCEPT ![p] = FALSE]
    /\ UNCHANGED <<file, runs, unauth>>
    /\ argv' = [argv EXCEPT ![p] = NoArgs]
    /\ printed' = [printed EXCEPT ![p] = <<>>]
    /\ fsLog' = [fsLog EXCEPT ![p] = <<>>]
    /\ slept' = [slept EXCEPT ![p] = <<>>]

\* the user deletes the store file between two invocations
DeleteFile ==
    /\ \A q \in Procs : pc[q] = "idle"
    /\ file.exists
    /\ file' = NoFile
    /\ UNCHANGED <<runs, unauth, pc, locals>>
    /\ UNCHANGED fsLog

Next ==
    \/ \E p \in Procs :
         \/ Start(p)
         \/ LoadStore(p)
         \/ CreateStoreFile(p)
         \/ RestrictStoreFile(p)
         \/ LookupToken(p)
         \/ SendRequestCode(p)
         \/ RecvCodeResponse(p)
         \/ SendTokenRequest(p)
         \/ RecvTokenResponse(p)
         \/ InsertAndCreate(p)
         \/ Delay(p)
         \/ SendCommand(p)
         \/ RecvCommandResponse(p)
         \/ UnauthCreate(p)
         \/ UnauthRemove(p)
         \/ PersistStore(p)
         \/ Exit(p)
    \/ DeleteFile

Spec == Init /\ [][Next]_vars

\* what the server answers to overlapping invocations: success or a failure,
\* the failure with or without the token invalidation
OverlapStatuses == {200, 401}
OverlapBodies == {b \in Bodies : b.read /\ b.json /\ b.shape = "other"
                                  /\ b.error \in {"absent", "UNAUTHORIZED"}}

\* invocations that may overlap
NextOverlap ==
    \/ \E p \in Procs :
         \/ StartOverlapping(p)
         \/ LoadStore(p)
         \/ CreateStoreFile(p)
         \/ RestrictStoreFile(p)
         \/ LookupToken(p)
         \/ SendRequestCode(p)
         \/ CodeResponse(p, OverlapStatuses)
         \/ SendTokenRequest(p)
         \/ TokenResponse(p, OverlapStatuses)
         \/ InsertAndCreate(p)
         \/ Delay(p)
         \/ SendCommand(p)
         \/ CommandResponse(p, OverlapStatuses, OverlapBodies)
         \/ UnauthCreate(p)
         \/ UnauthRemove(p)
         \/ PersistStore(p)
         \/ Exit(p)
    \/ DeleteFile

SpecOverlap == Init /\ [][NextOverlap]_vars

(* ------------------------------------------------------------- properties *)
\* the server-to-token mapping a load of file f yields
Stored(f) == read_token_store(f).map

Addr(p) == command[p].server
Ended(p) == pc[p] = "done"
PairingPaths == {"auth/requestcode", "auth/request"}

\* the command request of p has been answered
HasCommandReply(p) ==
    /\ Len(sent[p]) > 0
    /\ Len(replies[p]) = Len(sent[p])
    /\ sent[p][Len(sent[p])].path \notin PairingPaths
CommandReply(p) == replies[p][Len(replies[p])]

\* a failure status (non-2xx, non-429) with a readable body
FailureReply(r) == r.status # 429 /\ (r.status < 200 \/ r.status > 299) /\ r.body.read
UnauthorizedBody(b) == b.json /\ b.error = "UNAUTHORIZED"

\* every entry the store held at the start of p is still there, same token
KeepsEntries(p, except) ==
    \A b \in Addrs \ except :
        Stored(pre[p])[b] # NoToken => Stored(file)[b] = Stored(pre[p])[b]

\* both pairing requests of p were answered 200 and the token was extracted
PairingCompleted(p) ==
    /\ Len(replies[p]) >= 2
    /\ sent[p][1].path = "auth/requestcode" /\ replies[p][1].status = 200
    /\ sent[p][2].path = "auth/request" /\ replies[p][2].status = 200
    /\ replies[p][2].body.json

\* C1: when a command for address A is answered with an unauthorized failure,
\* the persisted store afterwards has no entry for A and still holds the entry
\* of every other address with its previous token.
C1_UnauthorizedEvictsOnlyRequester ==
    \A p \in Procs :
        (Ended(p) /\ HasCommandReply(p) /\ FailureReply(CommandReply(p))
            /\ UnauthorizedBody(CommandReply(p).body))
        => /\ Stored(file)[Addr(p)] = NoToken
           /\ KeepsEntries(p, {Addr(p)})

\* C2: after an invocation that completed the pairing handshake for A, the
\* persisted store maps A to the issued token exactly when the command outcome
\* was Success or RateLimited, and then the other servers' entries are still
\* present; an invocation that starts with a token for A in the store loads
\* that token.
C2_PairedTokenPersistedIffAccepted ==
    \A p \in Procs :
        /\ (Ended(p) /\ PairingCompleted(p))
           => /\ (Stored(file)[Addr(p)] = token[p])
                 <=> (outcome[p] \in {"Success", "RateLimited"})
              /\ (outcome[p] \in {"Success", "RateLimited"}) => KeepsEntries(p, {})
        /\ (pc[p] \in {"logic", "send", "wait_cmd", "reqcode", "wait_code"}
            /\ Stored(pre[p])[Addr(p)] # NoToken)
           => cached[p] /\ token[p] = Stored(pre[p])[Addr(p)]

C2_Witness ==
    \E p \in Procs :
        /\ Ended(p) /\ PairingCompleted(p) /\ outcome[p] = "Success"
        /\ Stored(file)[Addr(p)] = token[p]
        /\ \E b \in Addrs \ {Addr(p)} :
             Stored(pre[p])[b] # NoToken /\ Stored(file)[b] = Stored(pre[p])[b]

\* C3: after an invocation for A ended Unauthorized, a load of the store has no
\* token for A, and the next invocation for A uses no cached token and sends
\* auth/requestcode before any command request.
C3_UnauthorizedForcesRepairing ==
    /\ \A a \in unauth : Stored(file)[a] = NoToken
    /\ \A p \in Procs :
         afterUnauth[p]
         => /\ ~cached[p]
            /\ \A i \in 1..Len(sent[p]) :
                 sent[p][i].path \notin PairingPaths
                 => \E j \in 1..(i - 1) : sent[p][j].path = "auth/requestcode"

C3_Witness ==
    \E p \in Procs :
        /\ afterUnauth[p]
        /\ Len(sent[p]) = 3
        /\ sent[p][3].path \notin PairingPaths

\* C4: a 429 response to the command never evicts a token: every token that
\* was in the store before the invocation is still there with the same value,
\* and a token obtained by pairing in this invocation is persisted.
C4_RateLimitedKeepsTokens ==
    \A p \in Procs :
        (Ended(p) /\ HasCommandReply(p) /\ CommandReply(p).status = 429)
        => /\ KeepsEntries(p, {})
           /\ Stored(file)[Addr(p)] = token[p]

C4_Witness ==
    \E p \in Procs :
        /\ Ended(p) /\ HasCommandReply(p) /\ CommandReply(p).status = 429
        /\ ~cached[p]
        /\ CommandReply(p).body.json /\ CommandReply(p).body.error = "UNAUTHORIZED"
        /\ \E b \in Addrs \ {Addr(p)} : Stored(pre[p])[b] # NoToken

\* C5: whenever the store file exists after being created by the program, its
\* permissions are owner-only, the instant after creation included.
C5_CreatedFileAlwaysOwnerOnly ==
    (file.exists /\ file.byProgram) => file.mode = {"ur", "uw"}

\* C6: a store file created by the program never holds content while its
\* permissions are not owner-only.
C6_NoContentBeforeRestriction ==
    (file.exists /\ file.byProgram /\ file.content.kind # "empty")
    => file.mode = {"ur", "uw"}

C6_Witness ==
    \E p \in Procs :
        /\ Ended(p) /\ ~pre[p].exists
        /\ file.exists /\ file.byProgram
        /\ file.content.kind = "json" /\ file.content.map[Addr(p)] = token[p]
        /\ token[p] # NoToken

\* the store file p started with yields no mapping: missing, empty or unparsable
Unloadable(f) == ~f.exists \/ f.content.kind # "json"

\* C7: loading the store never aborts the invocation: with a missing, empty or
\* unparsable file the loaded store is empty, no cached token is used, and an
\* invocation that ends has sent auth/requestcode first.
C7_LoadFailsSoft ==
    \A p \in Procs :
        (command[p] # NoCommand /\ Unloadable(pre[p]))
        => /\ pc[p] \in {"lookup", "reqcode"} => store[p] = EmptyMap
           /\ ~cached[p]
           /\ Ended(p) => (Len(sent[p]) >= 1 /\ sent[p][1].path = "auth/requestcode")

C7_Witness ==
    \E p \in Procs :
        /\ pre[p].exists /\ pre[p].content.kind = "corrupt"
        /\ pc[p] = "wait_code"
        /\ sent[p][1].path = "auth/requestcode"

\* number of requests p sent to a path
SentTo(p, path) == Cardinality({i \in 1..Len(sent[p]) : sent[p][i].path = path})

\* C8: a pairing request answered with a status other than 200 is the last
\* request of the invocation, which ends without a token held, inserted or
\* persisted for its address; no pairing request is sent twice.
C8_PairingFailureIsTerminal ==
    \A p \in Procs :
        /\ \A i \in 1..Len(replies[p]) :
             (sent[p][i].path \in PairingPaths /\ replies[p][i].status # 200)
             => /\ Len(sent[p]) = i
                /\ Ended(p)
                /\ token[p] = NoToken
                /\ store[p][Addr(p)] = NoToken
                /\ Stored(file)[Addr(p)] = NoToken
        /\ SentTo(p, "auth/requestcode") <= 1
        /\ SentTo(p, "auth/request") <= 1

C8_Witness ==
    \E p \in Procs :
        /\ Ended(p)
        /\ Len(replies[p]) = 2
        /\ sent[p][2].path = "auth/request"
        /\ replies[p][2].status = 204

\* C9: an invocation that ends in a pairing failure, a generic command failure,
\* a transport failure or a rate-limited response leaves every previously
\* persisted entry in the store with its value.
C9_FailuresLeaveStoreUntouched ==
    \A p \in Procs :
        (Ended(p) /\ outcome[p] \in {"PairingUnavailable", "PairingDeclined",
                                     "OtherFailure", "Transport", "RateLimited"})
        => KeepsEntries(p, {})

\* C10: a command answered with a failure status that is no token invalidation
\* ends the process with exit status 2; Success, RateLimited, Unauthorized, a
\* pairing failure and a help request end it with exit status 0.
C10_ExitStatusEncodesOutcome ==
    \A p \in Procs :
        Ended(p)
        => /\ (HasCommandReply(p) /\ FailureReply(CommandReply(p))
                 /\ ~UnauthorizedBody(CommandReply(p).body))
              => exitCode[p] = 2
           /\ (outcome[p] \in {"Success", "RateLimited", "Unauthorized",
                               "PairingUnavailable", "PairingDeclined", "Help"})
              => exitCode[p] = 0

C10_Witness ==
    \E p \in Procs :
        /\ Ended(p) /\ HasCommandReply(p)
        /\ CommandReply(p).status = 500
        /\ CommandReply(p).body.json /\ CommandReply(p).body.error = "OTHER"
        /\ exitCode[p] = 2

\* an argument list with an unrecognised command word, or volume/seek/jumpto
\* without a numeric target
RejectedArgs(a) ==
    /\ ~a.help
    /\ \/ a.word = "bogus"
       \/ (a.word \in {"volume", "seek", "jumpto"} /\ a.target # "num")

\* C11: an invocation whose command line fails to parse ends with exit status
\* 1 after printing the hint of volume, seek or jumpto (or the generic message)
\* and the help text, with no HTTP request sent and the store file neither
\* read nor created.
C11_RejectedArgsExitBeforeAnyIO ==
    \A p \in Procs :
        (pc[p] # "idle" /\ RejectedArgs(argv[p]))
        => /\ Ended(p)
           /\ exitCode[p] = 1
           /\ printed[p] = << IF argv[p].word = "bogus"
                              THEN "Invalid command" ELSE "hint:" \o argv[p].word,
                              "USEFUL_HELP" >>
           /\ sent[p] = <<>>
           /\ fsLog[p] = <<>>
           /\ file = pre[p]

C11_Witness ==
    \E p \in Procs :
        /\ Ended(p)
        /\ argv[p].word = "seek" /\ argv[p].target = "nonnum" /\ ~argv[p].help
        /\ ~pre[p].exists
        /\ exitCode[p] = 1
        /\ printed[p] = <<"hint:seek", "USEFUL_HELP">>

\* an accepted open command with neither --video nor --playlist
EmptyOpenArgs(a) ==
    ~a.help /\ a.flagsOk /\ a.word = "open" /\ ~a.video /\ ~a.playlist

\* C12: an open command with neither a video nor a playlist is rejected with no
\* HTTP request sent and the store file neither read, created nor modified.
C12_EmptyOpenRejectedBeforeAnyIO ==
    \A p \in Procs :
        (pc[p] # "idle" /\ EmptyOpenArgs(argv[p]))
        => /\ Ended(p)
           /\ sent[p] = <<>>
           /\ fsLog[p] = <<>>
           /\ file = pre[p]

C12_Witness ==
    \E p \in Procs :
        /\ Ended(p) /\ EmptyOpenArgs(argv[p])
        /\ ~pre[p].exists /\ ~file.exists
        /\ printed[p] = <<"open requires">>

\* C13: an open command with neither a video nor a playlist ends with exit
\* status 1.
C13_EmptyOpenExitsWithInvalidArgs ==
    \A p \in Procs :
        (Ended(p) /\ EmptyOpenArgs(argv[p])) => exitCode[p] = 1

\* C14: every answered command request is classified, and in one way only:
\* 200 is Success, 429 is RateLimited whatever the body, any other non-2xx
\* status is Unauthorized exactly when the body is JSON whose "error" is the
\* string "UNAUTHORIZED", and OtherFailure otherwise.
C14_ClassificationOfResponses ==
    \A p \in Procs :
        HasCommandReply(p)
        => LET r == CommandReply(p) IN
           /\ r.status = 429 => outcome[p] = "RateLimited"
           /\ (r.status = 200 /\ r.body.read) => outcome[p] = "Success"
           /\ FailureReply(r)
              => outcome[p] = IF r.body.json /\ r.body.error = "UNAUTHORIZED"
                              THEN "Unauthorized" ELSE "OtherFailure"
           /\ r.body.read
              => outcome[p] \in {"Success", "RateLimited", "Unauthorized", "OtherFailure"}

C14_Witness ==
    \E p \in Procs :
        /\ Ended(p) /\ HasCommandReply(p)
        /\ CommandReply(p).status = 401
        /\ CommandReply(p).body.read /\ ~CommandReply(p).body.json
        /\ outcome[p] = "OtherFailure"

\* C15: a successful read command never fails on its payload: a body of the
\* expected schema is rendered structurally, other JSON is pretty-printed, text
\* that is no JSON is printed raw; each time the outcome is Success and the
\* token is kept (or, when just issued, persisted).
C15_ReadCommandRendersAnyBody ==
    \A p \in Procs :
        (HasCommandReply(p) /\ command[p].name \in {"State", "Playlists"}
            /\ CommandReply(p).status = 200 /\ CommandReply(p).body.read)
        => LET b == CommandReply(p).body
               schema == IF command[p].name = "State" THEN "state" ELSE "playlists"
           IN  /\ outcome[p] = "Success"
               /\ printed[p] = << IF b.json /\ b.shape = schema THEN "structured"
                                  ELSE IF b.json THEN "pretty" ELSE "raw" >>
               /\ pc[p] \in {"persist", "done"}
               /\ Ended(p) => (exitCode[p] = 0 /\ Stored(file)[Addr(p)] = token[p])

C15_Witness ==
    \E p \in Procs :
        /\ Ended(p) /\ HasCommandReply(p) /\ command[p].name = "State"
        /\ CommandReply(p).status = 200
        /\ CommandReply(p).body.json /\ CommandReply(p).body.shape = "playlists"
        /\ printed[p] = <<"pretty">>
        /\ ~cached[p]

\* C16: on a successful write command whose response has a body, the body is
\* printed: pretty-printed when it is JSON, raw otherwise.
C16_WriteCommandPrintsBody ==
    \A p \in Procs :
        (Ended(p) /\ HasCommandReply(p)
            /\ command[p].name \notin {"State", "Playlists"}
            /\ CommandReply(p).status = 200 /\ CommandReply(p).body.read)
        => printed[p] = << IF CommandReply(p).body.json THEN "pretty" ELSE "raw" >>

\* C17: with no command-like argument and no help flag the invocation is the
\* play-pause command, and its command request is a POST of
\* {"command":"playPause"} to the command path.
C17_NoCommandMeansPlayPause ==
    \A p \in Procs :
        (pc[p] # "idle" /\ argv[p].word = "" /\ ~argv[p].help /\ argv[p].flagsOk)
        => /\ command[p].name = "PlayPause"
           /\ \A i \in 1..Len(sent[p]) :
                sent[p][i].path \notin PairingPaths
                => /\ sent[p][i].method = "POST"
                   /\ sent[p][i].path = "command"
                   /\ sent[p][i].body = "{\"command\":\"playPause\"}"

C17_Witness ==
    \E p \in Procs :
        /\ argv[p].word = "" /\ ~argv[p].help
        /\ Ended(p) /\ HasCommandReply(p)
        /\ sent[p][Len(sent[p])].body = "{\"command\":\"playPause\"}"
        /\ outcome[p] = "Success"

\* C18: the requests of one invocation are strictly sequential and never
\* retried: each is sent only after the previous one was answered, pairing goes
\* auth/requestcode, auth/request, then the command; there is at most one
\* command request, and it carries the token the invocation holds.
C18_RequestsSequentialNeverRetried ==
    \A p \in Procs :
        /\ Len(replies[p]) <= Len(sent[p])
        /\ Len(sent[p]) <= Len(replies[p]) + 1
        /\ \A i \in 1..Len(sent[p]) :
             /\ sent[p][i].path = "auth/requestcode" => i = 1
             /\ sent[p][i].path = "auth/request"
                => (i = 2 /\ sent[p][1].path = "auth/requestcode")
             /\ sent[p][i].path \notin PairingPaths
                => /\ i = Len(sent[p])
                   /\ i = 1 \/ (i = 3 /\ sent[p][2].path = "auth/request")
                   /\ token[p] # NoToken
                   /\ sent[p][i].auth = token[p]

C18_Witness ==
    \E p \in Procs :
        /\ Len(sent[p]) = 3 /\ Len(replies[p]) = 3
        /\ sent[p][3].path = "command"
        /\ sent[p][3].auth = token[p]
        /\ Ended(p)

\* C19 as stated: once the lookup has found a cached token for the address,
\* the address's entry is gone from the token store while the command runs.
C19_LookupRemovesCachedEntry ==
    \A p \in Procs :
        (cached[p] /\ pc[p] \in {"logic", "send", "wait_cmd"})
        => Stored(file)[Addr(p)] = NoToken

\* C19: the lookup removes the address's entry only from a temporary copy of
\* the loaded map: while the command of a cached invocation runs, the store
\* file and the loaded map still hold the entry, and when the command succeeds
\* or is rate-limited nothing is written back, the file staying as it was.
C19_LookupLeavesStoreIntact ==
    \A p \in Procs :
        cached[p]
        => /\ pc[p] \in {"logic", "send", "wait_cmd"}
              => /\ file = pre[p]
                 /\ Stored(file)[Addr(p)] = token[p]
                 /\ store[p][Addr(p)] = token[p]
           /\ (Ended(p) /\ outcome[p] \in {"Success", "RateLimited"})
              => /\ file = pre[p]
                 /\ Stored(file)[Addr(p)] = token[p]
                 /\ fsLog[p] = <<"read", "read">>

C19_Witness ==
    \E p \in Procs :
        /\ cached[p] /\ Ended(p) /\ outcome[p] = "Success"
        /\ file = pre[p]
        /\ Stored(file)[Addr(p)] = token[p]
        /\ token[p] # NoToken

\* C20: the store file is not locked: an invocation that persists writes the
\* map it loaded itself plus its own token over whatever the file holds, so a
\* token another overlapping invocation was issued and persisted is lost.
C20_LastWriterWins ==
    [][\A p \in Procs :
          (pc[p] = "persist" /\ pc'[p] = "done")
          => /\ file'.content \in {to_vec(store[p]), CorruptContent}
             /\ \A a \in Addrs :
                  (store[p][a] = NoToken /\ file'.content = to_vec(store[p]))
                  => Stored(file')[a] = NoToken]_vars

C20_Witness ==
    \E p, q \in Procs :
        /\ p # q /\ Addr(p) # Addr(q)
        /\ Ended(p) /\ Ended(q)
        /\ ~cached[p] /\ ~cached[q]
        /\ outcome[p] = "Success" /\ outcome[q] = "Success"
        /\ fsLog[q][Len(fsLog[q])] = "write"
        /\ fsLog[p][Len(fsLog[p])] = "write"
        /\ token[q] # NoToken
        /\ Stored(file)[Addr(q)] = NoToken
        /\ Stored(file)[Addr(p)] = token[p]

\* C21: when a delay is given, the command request is sent only after the
\* delay has elapsed, and the delay concerns the command request alone: the
\* pairing requests of the invocation were all sent before the sleep.
C21_CommandSentOnlyAfterDelay ==
    \A p \in Procs :
        /\ Len(slept[p]) <= 1
        /\ (pc[p] # "idle" /\ argv[p].delay = "none") => slept[p] = <<>>
        /\ (pc[p] # "idle" /\ argv[p].delay = "valid")
           => \A i \in 1..Len(sent[p]) :
                /\ sent[p][i].path \notin PairingPaths => slept[p] = <<i - 1>>
                /\ sent[p][i].path \in PairingPaths
                   => (slept[p] = <<>> \/ i <= slept[p][1])

C21_Witness ==
    \E p \in Procs :
        /\ Ended(p) /\ argv[p].delay = "valid"
        /\ Len(sent[p]) = 3
        /\ sent[p][1].path = "auth/requestcode" /\ sent[p][2].path = "auth/request"
        /\ slept[p] = <<2>>
        /\ outcome[p] = "Success"

\* C22: an invocation that finds a token for its address in the persisted
\* store sends no pairing request and exactly one command request, carrying
\* that token, and when the outcome is Success the content of the store file
\* afterwards is the content before.
C22_CachedTokenOneCommandSameFile ==
    \A p \in Procs :
        (cached[p] /\ Ended(p))
        => /\ \A i \in 1..Len(sent[p]) : sent[p][i].path \notin PairingPaths
           /\ Len(sent[p]) = 1
           /\ token[p] = Stored(pre[p])[Addr(p)]
           /\ \A i \in 1..Len(sent[p]) : sent[p][i].auth = token[p]
           /\ outcome[p] = "Success" => file.content = pre[p].content

====
